---- MODULE Spec2Model ----
(***************************************************************************)
(* Trainer of lib/train.py: config and weight persistence, the epoch loop  *)
(* of Trainer.train, the sample evaluation callback and the train step,    *)
(* as a state machine over one Trainer object, the files it reads and      *)
(* writes, and process restarts.                                           *)
(*                                                                         *)
(* Representation.  A path string is the sequence of its components, so    *)
(* os.path.join is concatenation; Python None is kept apart from every     *)
(* path as the empty sequence.  A file write is atomic at the granularity  *)
(* of one file: a crash falls between two writes, never inside one.        *)
(* tools.create_dir and the plotting helpers are collaborators defined     *)
(* outside lib/train.py; create_dir is taken to leave its directory in     *)
(* place and to change nothing else.                                       *)
(***************************************************************************)
EXTENDS Naturals, Sequences, FiniteSets, TLC

\* ------------------------------------------------------------- bounds
MaxEpochs == 2        \* largest epochs argument of one train call
MaxLen == 2           \* longest batch stream
MaxClock == 2         \* distinct wall-clock seconds
MaxRestarts == 1      \* process restarts
MaxCalls == 2         \* train calls

\* ------------------------------------------------------ Python values
None == << >>
Str(s) == << s >>
Join(a, b) == a \o b

Min(a, b) == IF a <= b THEN a ELSE b

\* ------------------------------------------------------------- state
VARIABLES
  trainer,      \* the persisted attributes of the Trainer object
  params,       \* per network: number of optimizer updates its parameters hold
  trained,      \* per network: number of whole training epochs its parameters hold
  config_file,  \* the file at config_path: [exists, data]
  weight_files, \* per weight-file path: [exists, params, trained]
  pc,           \* position of the process inside train
  call,         \* arguments of the train call in progress
  epoch,        \* loop variable of "for epoch in range(epochs)"
  n,            \* batches taken from the zipped dataset in this epoch
  saved,        \* weight files written by the save_weights in progress
  clock,        \* wall-clock second last observed
  restarts,     \* process restarts so far
  obs           \* observations of the run (history, for the properties)

vars == << trainer, params, trained, config_file, weight_files, pc, call,
           epoch, n, saved, clock, restarts, obs >>

\* The four networks, in the order of get_models_and_paths.
Networks == << "generator_clear2fog", "generator_fog2clear",
               "discriminator_clear", "discriminator_fog" >>
NetworkSet == { Networks[i] : i \in 1..Len(Networks) }

\* The weight-file name of a network.
WeightFileName(net) ==
  CASE net = "generator_clear2fog" -> "generator_clear2fog.h5"
    [] net = "generator_fog2clear" -> "generator_fog2clear.h5"
    [] net = "discriminator_clear" -> "discriminator_clear.h5"
    [] net = "discriminator_fog" -> "discriminator_fog.h5"

\* paths of get_models_and_paths, keyed by network.
get_models_and_paths(weights_path) ==
  [ net \in NetworkSet |-> Join(weights_path, Str(WeightFileName(net))) ]

\* Directories a caller passes to configure_checkpoint.
WeightDirs == { Str("weights"), Str("weights_other") }
WeightPaths == { get_models_and_paths(d)[net] : d \in WeightDirs, net \in NetworkSet }

\* The attributes __init__ sets.
config_path == Str("trainer_config.json")
NewTrainer ==
  [ weights_path |-> None,
    tensorboard_base_logdir |-> Str("tensorboard_logs"),
    tensorboard_current_logdir |-> None,
    total_epochs |-> 0,
    image_log_path |-> Str("image_logs") ]

\* Freshly constructed networks hold no update and no training epoch.
NewParams == [ net \in NetworkSet |-> 0 ]

\* --------------------------------------------------------------- JSON
JNull == [ type |-> "null" ]
JString(s) == [ type |-> "string", value |-> s ]
JNumber(i) == [ type |-> "number", value |-> i ]

\* json.dump of one attribute value: None becomes null.
DumpPath(v) == IF v = None THEN JNull ELSE JString(v)
\* json.load of one value: null becomes None.
LoadValue(j) == IF j.type = "null" THEN None ELSE j.value

ConfigKeys == { "weights_path", "tensorboard_base_logdir",
                "tensorboard_current_logdir", "total_epochs", "image_log_path" }

NoFile == [ exists |-> FALSE, data |-> [ key \in {} |-> JNull ] ]

\* Mutant: the epoch counter is left out of the file.
save_config_without_epochs(t) ==
  [ exists |-> TRUE,
    data |-> [ weights_path |-> DumpPath(t.weights_path),
               tensorboard_base_logdir |-> DumpPath(t.tensorboard_base_logdir),
               tensorboard_current_logdir |-> DumpPath(t.tensorboard_current_logdir),
               image_log_path |-> DumpPath(t.image_log_path) ] ]

\* save_config: the file written from the Trainer's attributes.
save_config(t) ==
  [ exists |-> TRUE,
    data |-> [ weights_path |-> DumpPath(t.weights_path),
               tensorboard_base_logdir |-> DumpPath(t.tensorboard_base_logdir),
               tensorboard_current_logdir |-> DumpPath(t.tensorboard_current_logdir),
               total_epochs |-> JNumber(t.total_epochs),
               image_log_path |-> DumpPath(t.image_log_path) ] ]

\* Mutants: one key of the file is not read back.
LoadAllBut(t, f, skipped) ==
  IF ~f.exists THEN t
  ELSE [ key \in DOMAIN t |->
           IF key \in DOMAIN f.data /\ key # skipped
           THEN LoadValue(f.data[key]) ELSE t[key] ]
load_config_without_epochs(t, f, load_tensorboard_current_logdir) ==
  LoadAllBut(t, f, "total_epochs")
load_config_without_logdir(t, f, load_tensorboard_current_logdir) ==
  LoadAllBut(t, f, "tensorboard_current_logdir")
load_config_without_image_log_path(t, f, load_tensorboard_current_logdir) ==
  IF load_tensorboard_current_logdir
  THEN LoadAllBut(t, f, "image_log_path")
  ELSE [ LoadAllBut(t, f, "image_log_path") EXCEPT
           !.tensorboard_current_logdir = t.tensorboard_current_logdir ]

\* load_config: the Trainer's attributes after loading file f.
load_config(t, f, load_tensorboard_current_logdir) ==
  IF ~f.exists THEN t
  ELSE LET config == f.data
           has(key) == key \in DOMAIN config
       IN [ weights_path |->
              IF has("weights_path") THEN LoadValue(config["weights_path"])
              ELSE t.weights_path,
            tensorboard_base_logdir |->
              IF has("tensorboard_base_logdir")
              THEN LoadValue(config["tensorboard_base_logdir"])
              ELSE t.tensorboard_base_logdir,
            tensorboard_current_logdir |->
              IF load_tensorboard_current_logdir /\ has("tensorboard_current_logdir")
              THEN LoadValue(config["tensorboard_current_logdir"])
              ELSE t.tensorboard_current_logdir,
            total_epochs |->
              IF has("total_epochs") THEN LoadValue(config["total_epochs"])
              ELSE t.total_epochs,
            image_log_path |->
              IF has("image_log_path") THEN LoadValue(config["image_log_path"])
              ELSE t.image_log_path ]

\* ------------------------------------------------------ observations
\* What the properties need to remember of a run.  The fields from "pre" to
\* "updates" describe the last operation only and are reset by the next one.
NoObs ==
  [ op |-> "init",            \* the last operation
    pre |-> NewTrainer,       \* attributes before the last load_config
    loaded_file |-> FALSE,    \* the last operation ran load_config
    ltb |-> TRUE,             \* its load_tensorboard_current_logdir
    pre_params |-> NewParams, \* parameters before the last operation
    grad_base |-> [ net \in NetworkSet |-> NewParams ],
                              \* per network: the parameters its gradient was taken at
    updates |-> [ net \in NetworkSet |-> {} ],
                              \* per network: the optimizers applied to it
    loaded |-> {},            \* paths reported "Weights loaded"
    notices |-> {} ]          \* paths reported "Not found"

InitObs ==
  [ last |-> NoObs,
    completed |-> 0,          \* epochs fully completed, over all process lifetimes
    calls |-> 0,              \* train calls started
    returned |-> 0,           \* train calls that returned
    trace |-> << >>,          \* events of the current epoch, in order
    inferences |-> 0,         \* network invocations by epoch_callback, this epoch
    visualizations |-> {},    \* plot collaborators invoked by epoch_callback, this epoch
    entry_total |-> 0,        \* total_epochs when the train call was entered
    start_total |-> 0,        \* total_epochs when its epoch loop was entered
    saved_attrs |-> NewTrainer, \* attributes at the last save_config
    saved_valid |-> FALSE,    \* save_config has run
    first_dir |-> None,       \* the first log directory derived from a timestamp
    first_life |-> 0,         \* the process lifetime that derived it
    derived |-> {},           \* every log directory derived from a timestamp
    configured |-> FALSE,     \* this process has called configure_checkpoint
    loaded_config |-> FALSE,  \* this process has run load_config()
    resumable |-> TRUE ]      \* so far every train call loaded the config first
                              \* and saved it after each epoch, and save_config
                              \* never overwrote a config file not yet loaded

Last(op) == [ NoObs EXCEPT !.op = op ]

\* -------------------------------------------------------- checkpoints
NoWeights == [ exists |-> FALSE, params |-> 0, trained |-> 0 ]

\* Mutant: the weights are restored only when all four files exist.
configure_checkpoint_all_or_none(weights_path, p, tr, files) ==
  LET paths == get_models_and_paths(weights_path)
      all == \A net \in NetworkSet : files[paths[net]].exists
  IN [ params |-> [ net \in NetworkSet |->
                      IF all THEN files[paths[net]].params ELSE p[net] ],
       trained |-> [ net \in NetworkSet |->
                      IF all THEN files[paths[net]].trained ELSE tr[net] ],
       loaded |-> { paths[net] : net \in { m \in NetworkSet : all } },
       notices |-> { paths[net] : net \in { m \in NetworkSet : ~all } } ]

\* configure_checkpoint, the loop over zip(models, paths): a network whose file
\* exists takes the file's weights, any other keeps its own.
configure_checkpoint(weights_path, p, tr, files) ==
  LET paths == get_models_and_paths(weights_path)
      isfile(net) == files[paths[net]].exists
  IN [ params |-> [ net \in NetworkSet |->
                      IF isfile(net) THEN files[paths[net]].params ELSE p[net] ],
       trained |-> [ net \in NetworkSet |->
                      IF isfile(net) THEN files[paths[net]].trained ELSE tr[net] ],
       loaded |-> { paths[net] : net \in { m \in NetworkSet : isfile(m) } },
       notices |-> { paths[net] : net \in { m \in NetworkSet : ~isfile(m) } } ]

\* Mutant: every pass writes the first network's file.
save_weights_file_first_path(weights_path, i, p, tr, files) ==
  LET net == Networks[i]
  IN [ files EXCEPT ![get_models_and_paths(weights_path)[Networks[1]]] =
         [ exists |-> TRUE, params |-> p[net], trained |-> tr[net] ] ]

\* One pass of the loop of save_weights: model.save_weights(path) for network i.
save_weights_file(weights_path, i, p, tr, files) ==
  LET net == Networks[i]
  IN [ files EXCEPT ![get_models_and_paths(weights_path)[net]] =
         [ exists |-> TRUE, params |-> p[net], trained |-> tr[net] ] ]

\* Mutant: the weights are saved one epoch late.
SavesWeightsByIndex(t, epoch_save_rate, e) ==
  /\ t.weights_path # None
  /\ epoch_save_rate # None
  /\ e % (epoch_save_rate[1] + 1) = 1

\* The condition under which an epoch saves the weights.
SavesWeights(t, epoch_save_rate, e) ==
  /\ t.weights_path # None
  /\ epoch_save_rate # None
  /\ (e + 1) % epoch_save_rate[1] = 0

\* ---------------------------------------------------------- train_step
OptimizerOf(net) ==
  CASE net = "generator_clear2fog" -> "generator_clear2fog_optimizer"
    [] net = "generator_fog2clear" -> "generator_fog2clear_optimizer"
    [] net = "discriminator_clear" -> "discriminator_clear_optimizer"
    [] net = "discriminator_fog" -> "discriminator_fog_optimizer"

\* optimizer.apply_gradients on one network: one update of its parameters.
apply_gradients(p, net) == [ p EXCEPT ![net] = @ + 1 ]

\* Mutant: each gradient is taken just before its optimizer is applied, after
\* the updates of the networks before it.
train_step_interleaved(p) ==
  LET p1 == apply_gradients(p, "generator_clear2fog")
      p2 == apply_gradients(p1, "generator_fog2clear")
      p3 == apply_gradients(p2, "discriminator_clear")
      p4 == apply_gradients(p3, "discriminator_fog")
  IN [ params |-> p4,
       grad_base |-> [ net \in NetworkSet |->
                        CASE net = "generator_clear2fog" -> p
                          [] net = "generator_fog2clear" -> p1
                          [] net = "discriminator_clear" -> p2
                          [] net = "discriminator_fog" -> p3 ],
       updates |-> [ net \in NetworkSet |-> { OptimizerOf(net) } ] ]

\* train_step: the four gradients are taken from the one tape, recorded at the
\* parameters p; then the four optimizers are applied in turn.
train_step(p) ==
  LET tape == p
      gradients == [ net \in NetworkSet |-> tape ]
      p1 == apply_gradients(p, "generator_clear2fog")
      p2 == apply_gradients(p1, "generator_fog2clear")
      p3 == apply_gradients(p2, "discriminator_clear")
      p4 == apply_gradients(p3, "discriminator_fog")
  IN [ params |-> p4,
       grad_base |-> gradients,
       updates |-> [ net \in NetworkSet |-> { OptimizerOf(net) } ] ]

\* ------------------------------------------------------ epoch_callback
\* A sample_test argument: its Python type and its len().
NoSample == [ type |-> "NoneType", len |-> 0 ]
SampleTests ==
  { NoSample, [ type |-> "str", len |-> 2 ] }
    \cup { [ type |-> ty, len |-> l ] : ty \in { "list", "tuple" }, l \in 1..3 }

\* Mutant: the arity check lets a longer sample_test through.
epoch_callback_at_least_2(sample_test, plot_sample_generator, plot_sample_gen_and_disc, save_sample_generator_output, save_sample_gen_and_disc_output) ==
  IF sample_test.type = "NoneType"
  THEN [ raised |-> FALSE, inferences |-> 0, visualizations |-> {} ]
  ELSE IF sample_test.type # "list" /\ sample_test.type # "tuple"
  THEN [ raised |-> TRUE, inferences |-> 0, visualizations |-> {} ]
  ELSE IF sample_test.len < 2
  THEN [ raised |-> TRUE, inferences |-> 0, visualizations |-> {} ]
  ELSE [ raised |-> FALSE, inferences |-> 6,
         visualizations |-> { "plot_generators_and_discriminators_predictions" } ]

\* epoch_callback: whether it raises, how many times it invokes a network, and
\* which plot collaborators it calls.
epoch_callback(sample_test, plot_sample_generator, plot_sample_gen_and_disc, save_sample_generator_output, save_sample_gen_and_disc_output) ==
  IF sample_test.type = "NoneType"
  THEN [ raised |-> FALSE, inferences |-> 0, visualizations |-> {} ]
  ELSE IF sample_test.type # "list" /\ sample_test.type # "tuple"
  THEN [ raised |-> TRUE, inferences |-> 0, visualizations |-> {} ]
  ELSE IF sample_test.len # 2
  THEN [ raised |-> TRUE, inferences |-> 0, visualizations |-> {} ]
  ELSE [ raised |-> FALSE,
         inferences |-> 6,
         visualizations |->
           (IF plot_sample_gen_and_disc \/ save_sample_gen_and_disc_output
            THEN { "plot_generators_and_discriminators_predictions" } ELSE {})
           \cup (IF plot_sample_generator
                 THEN { "plot_generators_predictions_v2" } ELSE {})
           \cup (IF save_sample_generator_output
                 THEN { "get_generator_square_image" } ELSE {}) ]

\* --------------------------------------------------------------- train
\* datetime.now().strftime(...): one name per wall-clock second.
Stamp(t) == << t >>

NoCall ==
  [ epochs |-> 0, epoch_save_rate |-> None, use_tensorboard |-> FALSE,
    sample_test |-> NoSample, plots |-> FALSE,
    load_config_first |-> FALSE, save_config_each_epoch |-> FALSE,
    train_clear |-> 0, train_fog |-> 0 ]

\* train, lines 239-259: the optional load_config, the lazy tensorboard
\* directory, and entry into the epoch loop.
Train(args) ==
  /\ pc = "idle"
  /\ obs.calls < MaxCalls
  /\ LET loads == args.load_config_first /\ config_path # None
         t1 == IF loads THEN load_config(trainer, config_file, TRUE) ELSE trainer
         derives == args.use_tensorboard /\ t1.tensorboard_current_logdir = None
     IN \E now \in clock..MaxClock :
          LET logdir == Join(t1.tensorboard_base_logdir, Stamp(now))
          IN /\ derives \/ now = clock
             /\ clock' = now
             /\ trainer' = IF derives
                           THEN [ t1 EXCEPT !.tensorboard_current_logdir = logdir ]
                           ELSE t1
             /\ obs' = [ obs EXCEPT
                  !.last = [ Last("train") EXCEPT !.pre = trainer,
                                                  !.loaded_file = loads ],
                  !.calls = @ + 1,
                  !.trace = << >>,
                  !.inferences = 0,
                  !.visualizations = {},
                  !.entry_total = trainer.total_epochs,
                  !.start_total = t1.total_epochs,
                  !.first_dir = IF derives /\ @ = None THEN logdir ELSE @,
                  !.first_life = IF derives /\ obs.first_dir = None
                                 THEN restarts ELSE @,
                  !.derived = IF derives THEN @ \cup { logdir } ELSE @,
                  !.loaded_config = @ \/ loads,
                  !.resumable = @ /\ args.load_config_first
                                  /\ args.save_config_each_epoch ]
  /\ call' = args
  /\ epoch' = 0
  /\ n' = 0
  /\ pc' = "for"
  /\ UNCHANGED << params, trained, config_file, weight_files, saved, restarts >>

\* Mutant: the zip runs to the end of the longer stream.
HasNextBatchLongest(i, train_clear, train_fog) == i < train_clear \/ i < train_fog

\* tf.data.Dataset.zip((train_clear, train_fog)) after i batches: it yields
\* another pair while both streams have one.
HasNextBatch(i, train_clear, train_fog) == i < train_clear /\ i < train_fog

\* Lines 260-265: the loop takes its next epoch and calls epoch_callback.
EpochCallback ==
  /\ pc = "for"
  /\ epoch < call.epochs
  /\ LET r == epoch_callback(call.sample_test, FALSE, call.plots, call.plots, call.plots)
     IN /\ pc' = IF r.raised THEN "raised" ELSE "batches"
        /\ obs' = [ obs EXCEPT !.last = Last("epoch_callback"),
                               !.trace = << "epoch_callback" >>,
                               !.inferences = r.inferences,
                               !.visualizations = r.visualizations ]
  /\ n' = 0
  /\ UNCHANGED << trainer, params, trained, config_file, weight_files, call,
                  epoch, saved, clock, restarts >>

\* Lines 267-282: the zipped dataset yields a batch while both streams have
\* one, and train_step runs on it.
TrainStep ==
  /\ pc = "batches"
  /\ HasNextBatch(n, call.train_clear, call.train_fog)
  /\ LET r == train_step(params)
     IN /\ params' = r.params
        /\ obs' = [ obs EXCEPT !.last = [ Last("train_step") EXCEPT
                                            !.pre_params = params,
                                            !.grad_base = r.grad_base,
                                            !.updates = r.updates ],
                               !.trace = Append(@, "train_step") ]
  /\ n' = n + 1
  /\ UNCHANGED << trainer, trained, config_file, weight_files, pc, call, epoch,
                  saved, clock, restarts >>

\* Lines 283-291: the zipped dataset is exhausted; the epoch's training is in
\* the parameters, and the epoch decides whether to save the weights.
EndOfDataset ==
  /\ pc = "batches"
  /\ ~HasNextBatch(n, call.train_clear, call.train_fog)
  /\ trained' = [ net \in NetworkSet |-> trained[net] + 1 ]
  /\ pc' = IF SavesWeights(trainer, call.epoch_save_rate, epoch)
           THEN "save_weights" ELSE "increment"
  /\ saved' = 0
  /\ obs' = [ obs EXCEPT !.last = Last("end_of_dataset") ]
  /\ UNCHANGED << trainer, params, config_file, weight_files, call, epoch, n,
                  clock, restarts >>

\* Lines 120-123 from line 291: save_weights writes the next of the four files.
SaveWeightsStep ==
  /\ pc = "save_weights"
  /\ weight_files' =
       save_weights_file(trainer.weights_path, saved + 1, params, trained, weight_files)
  /\ saved' = saved + 1
  /\ pc' = IF saved + 1 = Len(Networks) THEN "increment" ELSE "save_weights"
  /\ obs' = [ obs EXCEPT !.last = Last("save_weights"),
                         !.trace = Append(@, "save_weights") ]
  /\ UNCHANGED << trainer, params, trained, config_file, call, epoch, n, clock,
                  restarts >>

\* Lines 295-317: the epoch's metrics, then total_epochs += 1.
Increment ==
  /\ pc = "increment"
  /\ trainer' = [ trainer EXCEPT !.total_epochs = @ + 1 ]
  /\ IF call.save_config_each_epoch
     THEN /\ pc' = "save_config"
          /\ epoch' = epoch
          /\ obs' = [ obs EXCEPT !.last = Last("increment"),
                                 !.trace = Append(@, "increment") ]
     ELSE /\ pc' = "for"
          /\ epoch' = epoch + 1
          /\ obs' = [ obs EXCEPT !.last = Last("increment"),
                                 !.trace = Append(@, "increment"),
                                 !.completed = @ + 1 ]
  /\ UNCHANGED << params, trained, config_file, weight_files, call, n, saved,
                  clock, restarts >>

\* Lines 318-319: save_config at the end of the epoch.
SaveConfigStep ==
  /\ pc = "save_config"
  /\ config_file' = save_config(trainer)
  /\ pc' = "for"
  /\ epoch' = epoch + 1
  /\ obs' = [ obs EXCEPT !.last = Last("save_config"),
                         !.trace = Append(@, "save_config"),
                         !.completed = @ + 1,
                         !.saved_attrs = trainer,
                         !.saved_valid = TRUE ]
  /\ UNCHANGED << trainer, params, trained, weight_files, call, n, saved, clock,
                  restarts >>

\* What a train call leaves behind: its arguments and locals are gone.
LeaveTrain(op) ==
  /\ pc' = "idle"
  /\ call' = NoCall
  /\ epoch' = 0
  /\ n' = 0
  /\ saved' = 0
  /\ obs' = [ obs EXCEPT !.last = Last(op),
                         !.returned = IF op = "return" THEN @ + 1 ELSE @,
                         !.trace = << >>,
                         !.inferences = 0,
                         !.visualizations = {},
                         !.entry_total = 0,
                         !.start_total = 0 ]
  /\ UNCHANGED << trainer, params, trained, config_file, weight_files, clock,
                  restarts >>

\* range(epochs) is exhausted: train returns.
Return ==
  /\ pc = "for"
  /\ epoch = call.epochs
  /\ LeaveTrain("return")

\* The exception of epoch_callback has left train; the caller goes on.
Caught ==
  /\ pc = "raised"
  /\ LeaveTrain("caught")

\* ------------------------------------------------- calls between trains
\* load_config called by the user.
LoadConfigCall(load_tensorboard_current_logdir) ==
  /\ pc = "idle"
  /\ trainer' = load_config(trainer, config_file, load_tensorboard_current_logdir)
  /\ obs' = [ obs EXCEPT !.last = [ Last("load_config") EXCEPT
                                      !.pre = trainer,
                                      !.loaded_file = TRUE,
                                      !.ltb = load_tensorboard_current_logdir ],
                         !.loaded_config = @ \/ load_tensorboard_current_logdir ]
  /\ UNCHANGED << params, trained, config_file, weight_files, pc, call, epoch,
                  n, saved, clock, restarts >>

\* save_config called by the user.
SaveConfigCall ==
  /\ pc = "idle"
  /\ config_file' = save_config(trainer)
  /\ obs' = [ obs EXCEPT !.last = Last("save_config"),
                         !.saved_attrs = trainer,
                         !.saved_valid = TRUE,
                         !.resumable = @ /\ (obs.loaded_config \/ ~config_file.exists) ]
  /\ UNCHANGED << trainer, params, trained, weight_files, pc, call, epoch, n,
                  saved, clock, restarts >>

\* configure_checkpoint(weights_path) called by the user.
ConfigureCheckpoint(weights_path) ==
  /\ pc = "idle"
  /\ LET r == configure_checkpoint(weights_path, params, trained, weight_files)
     IN /\ trainer' = [ trainer EXCEPT !.weights_path = weights_path ]
        /\ params' = r.params
        /\ trained' = r.trained
        /\ obs' = [ obs EXCEPT !.last = [ Last("configure_checkpoint") EXCEPT
                                            !.pre_params = params,
                                            !.loaded = r.loaded,
                                            !.notices = r.notices ],
                               !.configured = TRUE ]
  /\ UNCHANGED << config_file, weight_files, pc, call, epoch, n, saved, clock,
                  restarts >>

\* The process ends, at any point, and a new one constructs its Trainer and
\* its networks; the files stay.
Restart ==
  /\ restarts < MaxRestarts
  /\ restarts' = restarts + 1
  /\ trainer' = NewTrainer
  /\ params' = NewParams
  /\ trained' = NewParams
  /\ pc' = "idle"
  /\ call' = NoCall
  /\ epoch' = 0
  /\ n' = 0
  /\ saved' = 0
  /\ obs' = [ obs EXCEPT !.last = Last("restart"),
                         !.trace = << >>,
                         !.inferences = 0,
                         !.visualizations = {},
                         !.entry_total = 0,
                         !.start_total = 0,
                         !.configured = FALSE,
                         !.loaded_config = FALSE ]
  /\ UNCHANGED << config_file, weight_files, clock >>

\* A restart between two train calls.
RestartBetweenCalls ==
  /\ pc = "idle"
  /\ Restart

\* ------------------------------------------------------- specifications
NoWeightFiles == [ path \in WeightPaths |-> NoWeights ]

\* A new process, no config file, no weight file.
Init ==
  /\ trainer = NewTrainer
  /\ params = NewParams
  /\ trained = NewParams
  /\ config_file = NoFile
  /\ weight_files = NoWeightFiles
  /\ pc = "idle"
  /\ call = NoCall
  /\ epoch = 0
  /\ n = 0
  /\ saved = 0
  /\ clock = 1
  /\ restarts = 0
  /\ obs = InitObs

\* The defaults of train's parameters, with one epoch over one batch per stream.
Defaults ==
  [ epochs |-> 1, epoch_save_rate |-> << 1 >>, use_tensorboard |-> FALSE,
    sample_test |-> NoSample, plots |-> TRUE,
    load_config_first |-> TRUE, save_config_each_epoch |-> TRUE,
    train_clear |-> 1, train_fog |-> 1 ]

\* The epoch loop under every save rate and config flag.
LoopArgs ==
  { [ Defaults EXCEPT !.epochs = e, !.epoch_save_rate = r,
                      !.load_config_first = l, !.save_config_each_epoch = c ] :
      e \in 0..MaxEpochs, r \in { None, << 1 >>, << 2 >> },
      l \in BOOLEAN, c \in BOOLEAN }

Next ==
  \/ \E args \in LoopArgs : Train(args)
  \/ EpochCallback
  \/ TrainStep
  \/ EndOfDataset
  \/ SaveWeightsStep
  \/ Increment
  \/ SaveConfigStep
  \/ Return
  \/ \E dir \in { Str("weights") } : ConfigureCheckpoint(dir)
  \/ RestartBetweenCalls

Spec == Init /\ [][Next]_vars

\* The sample evaluation callback under every kind of sample_test.
CallbackArgs ==
  { [ Defaults EXCEPT !.epochs = e, !.sample_test = s, !.plots = p,
                      !.load_config_first = l ] :
      e \in 0..MaxEpochs, s \in SampleTests, p \in BOOLEAN, l \in BOOLEAN }

NextCallback ==
  \/ \E args \in CallbackArgs : Train(args)
  \/ EpochCallback
  \/ TrainStep
  \/ EndOfDataset
  \/ Increment
  \/ SaveConfigStep
  \/ Return
  \/ Caught
  \/ RestartBetweenCalls

SpecCallback == Init /\ [][NextCallback]_vars

\* Batch streams of every pair of lengths.
StreamArgs ==
  { [ Defaults EXCEPT !.epochs = e, !.train_clear = a, !.train_fog = b ] :
      e \in 0..MaxEpochs, a \in 0..MaxLen, b \in 0..MaxLen }

NextStreams ==
  \/ \E args \in StreamArgs : Train(args)
  \/ EpochCallback
  \/ TrainStep
  \/ EndOfDataset
  \/ Increment
  \/ SaveConfigStep
  \/ Return

SpecStreams == Init /\ [][NextStreams]_vars

\* Every choice of the config flags and of tensorboard, with the user's own
\* load_config and save_config calls; the process may end at any point.
FlagArgs ==
  { [ Defaults EXCEPT !.epochs = e, !.use_tensorboard = u,
                      !.load_config_first = l, !.save_config_each_epoch = c ] :
      e \in 0..1, u \in BOOLEAN, l \in BOOLEAN, c \in BOOLEAN }

NextFlags ==
  \/ \E args \in FlagArgs : Train(args)
  \/ EpochCallback
  \/ TrainStep
  \/ EndOfDataset
  \/ Increment
  \/ SaveConfigStep
  \/ Return
  \/ \E ltb \in BOOLEAN : LoadConfigCall(ltb)
  \/ SaveConfigCall
  \/ Restart

SpecFlags == Init /\ [][NextFlags]_vars

\* Calls of train(..., epochs=1) with the config loaded first and saved after
\* each epoch, split over processes in every way.
OneEpochArgs ==
  { [ Defaults EXCEPT !.use_tensorboard = u, !.sample_test = s,
                      !.train_clear = a, !.train_fog = a ] :
      u \in BOOLEAN, s \in SampleTests, a \in 0..MaxLen }

NextOneEpoch ==
  \/ \E args \in OneEpochArgs : Train(args)
  \/ EpochCallback
  \/ TrainStep
  \/ EndOfDataset
  \/ Increment
  \/ SaveConfigStep
  \/ Return
  \/ Caught
  \/ RestartBetweenCalls

SpecOneEpoch == Init /\ [][NextOneEpoch]_vars

\* Resumed training: every process calls configure_checkpoint on the one
\* weights directory before it trains, saves the weights every epoch, loads the
\* config first and saves it after each epoch; it may end at any point.
ResumeArgs ==
  { [ Defaults EXCEPT !.epochs = e ] : e \in 0..MaxEpochs }

NextResume ==
  \/ \E args \in ResumeArgs : obs.configured /\ Train(args)
  \/ EpochCallback
  \/ TrainStep
  \/ EndOfDataset
  \/ SaveWeightsStep
  \/ Increment
  \/ SaveConfigStep
  \/ Return
  \/ ~obs.configured /\ ConfigureCheckpoint(Str("weights"))
  \/ Restart

SpecResume == Init /\ [][NextResume]_vars

\* A config file left by another run or version: any subset of the keys.
StoredConfig ==
  [ weights_path |-> JString(Str("weights_other")),
    tensorboard_base_logdir |-> JString(Str("runs")),
    tensorboard_current_logdir |-> JString(Join(Str("runs"), Stamp(0))),
    total_epochs |-> JNumber(1),
    image_log_path |-> JString(Str("images")) ]
PartialConfigFiles ==
  { [ exists |-> TRUE, data |-> [ key \in keys |-> StoredConfig[key] ] ] :
      keys \in SUBSET ConfigKeys }

\* A new process that finds no config file or a partial one.
InitConfig ==
  /\ trainer = NewTrainer
  /\ params = NewParams
  /\ trained = NewParams
  /\ config_file \in { NoFile } \cup PartialConfigFiles
  /\ weight_files = NoWeightFiles
  /\ pc = "idle"
  /\ call = NoCall
  /\ epoch = 0
  /\ n = 0
  /\ saved = 0
  /\ clock = 1
  /\ restarts = 0
  /\ obs = InitObs

ConfigArgs ==
  { [ Defaults EXCEPT !.epoch_save_rate = None, !.use_tensorboard = u,
                      !.load_config_first = FALSE,
                      !.save_config_each_epoch = FALSE ] : u \in BOOLEAN }

\* The user's own load_config and save_config calls around train calls that
\* leave the config file alone.
NextConfig ==
  \/ \E args \in ConfigArgs : Train(args)
  \/ EpochCallback
  \/ TrainStep
  \/ EndOfDataset
  \/ Increment
  \/ Return
  \/ \E ltb \in BOOLEAN : LoadConfigCall(ltb)
  \/ SaveConfigCall
  \/ RestartBetweenCalls

SpecConfig == InitConfig /\ [][NextConfig]_vars

\* Weight files left under "weights" by another run: any subset of the four.
StoredWeights == [ exists |-> TRUE, params |-> 3, trained |-> 1 ]
StoredWeightFiles ==
  { [ path \in WeightPaths |->
        IF \E net \in present : path = get_models_and_paths(Str("weights"))[net]
        THEN StoredWeights ELSE NoWeights ] :
      present \in SUBSET NetworkSet }

\* A new process that finds any subset of the weight files.
InitCheckpoint ==
  /\ trainer = NewTrainer
  /\ params = NewParams
  /\ trained = NewParams
  /\ config_file = NoFile
  /\ weight_files \in StoredWeightFiles
  /\ pc = "idle"
  /\ call = NoCall
  /\ epoch = 0
  /\ n = 0
  /\ saved = 0
  /\ clock = 1
  /\ restarts = 0
  /\ obs = InitObs

CheckpointArgs ==
  { [ Defaults EXCEPT !.epochs = e, !.epoch_save_rate = r,
                      !.load_config_first = FALSE,
                      !.save_config_each_epoch = FALSE ] :
      e \in 0..1, r \in { None, << 1 >> } }

NextCheckpoint ==
  \/ \E args \in CheckpointArgs : Train(args)
  \/ EpochCallback
  \/ TrainStep
  \/ EndOfDataset
  \/ SaveWeightsStep
  \/ Increment
  \/ Return
  \/ \E dir \in WeightDirs : ConfigureCheckpoint(dir)
  \/ RestartBetweenCalls

SpecCheckpoint == InitCheckpoint /\ [][NextCheckpoint]_vars


\* ------------------------------------------------------------ properties
Count(seq, event) == Cardinality({ i \in DOMAIN seq : seq[i] = event })
InEpochBody == pc \in { "batches", "save_weights", "increment", "save_config" }
AfterBatches == pc \in { "save_weights", "increment", "save_config" }

\* C7: in every epoch the two streams are consumed in lockstep and train_step
\* runs min(len(train_clear), len(train_fog)) times; unequal lengths raise no
\* error, and the epoch goes on to increment total_epochs.
C7_StepsAreMinOfStreamLengths ==
  /\ pc # "raised"
  /\ InEpochBody =>
       /\ Count(obs.trace, "train_step") = n
       /\ n <= Min(call.train_clear, call.train_fog)
  /\ AfterBatches => n = Min(call.train_clear, call.train_fog)
  /\ pc = "save_config" => trainer.total_epochs = obs.start_total + epoch + 1

C7_Witness ==
  /\ pc = "save_config"
  /\ call.train_clear = 2
  /\ call.train_fog = 1
  /\ Count(obs.trace, "train_step") = 1
  /\ Count(obs.trace, "increment") = 1

\* What C5 says of epoch_callback, with total_epochs at the raise equal to base.
IsPair(sample_test) == sample_test.type \in { "list", "tuple" } /\ sample_test.len = 2
CallbackGuards(base) ==
  /\ obs.last.op = "epoch_callback" =>
       /\ call.sample_test = NoSample =>
            pc # "raised" /\ obs.inferences = 0 /\ obs.visualizations = {}
       /\ (call.sample_test # NoSample /\ ~IsPair(call.sample_test)) =>
            pc = "raised" /\ obs.inferences = 0 /\ obs.visualizations = {}
       /\ IsPair(call.sample_test) => pc = "batches" /\ obs.inferences > 0
  /\ (obs.inferences > 0 \/ obs.visualizations # {}) => IsPair(call.sample_test)
  /\ pc = "raised" =>
       /\ Count(obs.trace, "train_step") = 0
       /\ n = 0
       /\ trainer.total_epochs = base

\* C5, as claimed: epoch_callback runs inference and plots only for a list or
\* tuple of 2 elements, returns at once for None, raises before any inference
\* for anything else; through train the error comes before any train step of
\* the epoch, with total_epochs as it was when train was called.
C5_Original == CallbackGuards(obs.entry_total)

\* C5, amended: as C5_Original, but at the raise total_epochs is the value it
\* had after the load_config at the start of that train call: not incremented,
\* yet not always the value train was called with.
C5_CallbackGuards == CallbackGuards(obs.start_total)

C5_Witness ==
  /\ pc = "raised"
  /\ call.sample_test = [ type |-> "list", len |-> 3 ]
  /\ call.train_clear > 0 /\ call.train_fog > 0
  /\ trainer.total_epochs # obs.entry_total

\* The order of one epoch, with total_epochs counted from base.
Rank(event) ==
  CASE event = "epoch_callback" -> 0
    [] event = "train_step" -> 1
    [] event = "save_weights" -> 2
    [] event = "increment" -> 3
    [] event = "save_config" -> 4
Ordered(seq) ==
  \A i \in DOMAIN seq : \A j \in DOMAIN seq : i < j => Rank(seq[i]) <= Rank(seq[j])
WeightsDue ==
  /\ trainer.weights_path # None
  /\ call.epoch_save_rate # None
  /\ (epoch + 1) % call.epoch_save_rate[1] = 0
WeightsOnDisk ==
  \A net \in NetworkSet :
    LET file == weight_files[Join(trainer.weights_path, Str(WeightFileName(net)))]
    IN file.exists /\ file.params = params[net]
FileTotalEpochs ==
  IF config_file.exists /\ "total_epochs" \in DOMAIN config_file.data
  THEN LoadValue(config_file.data["total_epochs"]) ELSE 0
EpochOrder(base) ==
  /\ Ordered(obs.trace)
  /\ Count(obs.trace, "increment") <= 1
  /\ Count(obs.trace, "save_config") <= 1
  /\ (InEpochBody \/ pc = "raised") =>
       /\ Count(obs.trace, "epoch_callback") = 1
       /\ obs.trace[1] = "epoch_callback"
  /\ pc = "batches" => Len(obs.trace) = 1 + Count(obs.trace, "train_step")
  /\ pc = "save_weights" =>
       /\ WeightsDue
       /\ Count(obs.trace, "save_weights") = saved
       /\ saved < Len(Networks)
       /\ Count(obs.trace, "increment") = 0
  /\ pc \in { "increment", "save_config" } =>
       /\ Count(obs.trace, "save_weights") = IF WeightsDue THEN Len(Networks) ELSE 0
       /\ WeightsDue => WeightsOnDisk
       /\ Count(obs.trace, "save_config") = 0
  /\ pc = "increment" =>
       /\ Count(obs.trace, "increment") = 0
       /\ trainer.total_epochs = base + epoch
  /\ pc = "save_config" =>
       /\ call.save_config_each_epoch
       /\ Count(obs.trace, "increment") = 1
       /\ trainer.total_epochs = base + epoch + 1
  /\ (pc = "for" /\ epoch > 0) =>
       /\ Count(obs.trace, "increment") = 1
       /\ Count(obs.trace, "save_config") = IF call.save_config_each_epoch THEN 1 ELSE 0
       /\ call.save_config_each_epoch => FileTotalEpochs = trainer.total_epochs
  /\ pc = "for" =>
       /\ epoch <= call.epochs
       /\ trainer.total_epochs = base + epoch

\* C9, as claimed: each epoch runs epoch_callback once, then the train steps,
\* then the four weight files when due, then total_epochs += 1, then the
\* config save; a train call that ends has raised total_epochs by its epochs
\* argument over the value it was called with.
C9_Original == EpochOrder(obs.entry_total)

\* C9, amended: as C9_Original, the growth by epochs being over the value
\* total_epochs had once the load_config at the start of the call was done.
C9_EpochOrder == EpochOrder(obs.start_total)

C9_Witness ==
  /\ pc = "for"
  /\ epoch = call.epochs
  /\ epoch = 2
  /\ obs.last.op = "save_config"
  /\ Count(obs.trace, "save_weights") = Len(Networks)
  /\ Count(obs.trace, "train_step") > 0
  /\ obs.start_total # obs.entry_total

\* C8, as claimed: within one process the parameters of the networks change
\* in train_step alone, where each network is updated once, by its own
\* optimizer, from a gradient taken before any of the four updates.
StepUpdatesEachOnce ==
  obs'.last.op = "train_step" =>
    \A net \in NetworkSet :
      /\ params'[net] = params[net] + 1
      /\ obs'.last.updates[net] = { OptimizerOf(net) }
      /\ obs'.last.grad_base[net] = params
C8_Original ==
  [][ /\ (params' # params /\ restarts' = restarts) => obs'.last.op = "train_step"
      /\ StepUpdatesEachOnce ]_vars

\* C8, amended: the parameters change in train_step, as above, and in
\* configure_checkpoint, which overwrites those of each network whose weight
\* file exists; no other operation changes them.
C8_ParamsChangeInStepOrRestore ==
  [][ /\ (params' # params /\ restarts' = restarts) =>
           obs'.last.op \in { "train_step", "configure_checkpoint" }
      /\ obs'.last.op = "configure_checkpoint" =>
           \A net \in NetworkSet :
             LET path == Join(trainer'.weights_path, Str(WeightFileName(net)))
             IN IF weight_files[path].exists
                THEN params'[net] = weight_files[path].params
                ELSE params'[net] = params[net]
      /\ StepUpdatesEachOnce ]_vars

C8_Witness ==
  /\ obs.last.op = "configure_checkpoint"
  /\ \E net \in NetworkSet : params[net] # obs.last.pre_params[net]
  /\ \E net \in NetworkSet : params[net] > 0

\* C1: starting with no config file, after N completed calls of
\* train(..., epochs=1) that load the config first and save it after the
\* epoch, total_epochs is N in memory and in the config file, however the
\* calls are split over processes.
C1_TotalEpochsCountsCalls ==
  /\ pc = "idle" =>
       /\ FileTotalEpochs = obs.returned
       /\ config_file.exists <=> obs.returned > 0
       /\ obs.loaded_config => trainer.total_epochs = obs.returned
  /\ obs.last.op = "return" => trainer.total_epochs = obs.returned

C1_Witness ==
  /\ obs.last.op = "return"
  /\ obs.returned = MaxCalls
  /\ restarts > 0
  /\ trainer.total_epochs = MaxCalls
  /\ FileTotalEpochs = MaxCalls

\* C2, as claimed: within a process total_epochs never decreases, and between
\* train calls (in the first process, or once the process has loaded the
\* config) it is the number of epochs completed over all process lifetimes.
C2_Original ==
  [][ /\ restarts' = restarts => trainer'.total_epochs >= trainer.total_epochs
      /\ (pc' = "idle" /\ (restarts' = 0 \/ obs'.loaded_config)) =>
           trainer'.total_epochs = obs'.completed ]_vars

\* C2, amended: provided every train call loads the config first and saves it
\* after each epoch, and save_config never overwrites a config file the
\* process has not loaded, the total_epochs in the config file never decreases
\* and is the number of epochs completed over all process lifetimes; the
\* total_epochs in memory never decreases within a process and is that number
\* between train calls once the process has loaded the config.
C2_ResumableTotalEpochs ==
  [][ obs'.resumable =>
        /\ restarts' = restarts => trainer'.total_epochs >= trainer.total_epochs
        /\ FileTotalEpochs' >= FileTotalEpochs
        /\ FileTotalEpochs' = obs'.completed
        /\ (pc' = "idle" /\ obs'.loaded_config) =>
             trainer'.total_epochs = obs'.completed ]_vars

C2_Witness ==
  /\ obs.resumable
  /\ restarts > 0
  /\ pc = "idle"
  /\ obs.loaded_config
  /\ obs.completed = 2
  /\ trainer.total_epochs = 2
  /\ FileTotalEpochs = 2

PersistedLogdir ==
  IF config_file.exists /\ "tensorboard_current_logdir" \in DOMAIN config_file.data
  THEN LoadValue(config_file.data["tensorboard_current_logdir"]) ELSE None

DiskEpochs(net) ==
  LET file == weight_files[get_models_and_paths(Str("weights"))[net]]
  IN IF file.exists THEN file.trained ELSE 0

\* C10: when every process calls configure_checkpoint on the same directory
\* before train, and train saves the weights every epoch, loads the config
\* first and saves it after each epoch, then at every point, a crash inside
\* train included, the total_epochs in the config file is at most the number
\* of epochs held by each weight file, and a train call never runs with a
\* counter ahead of the parameters it restored.
C10_ConfigNeverAheadOfWeights ==
  /\ \A net \in NetworkSet : FileTotalEpochs <= DiskEpochs(net)
  /\ pc # "idle" => \A net \in NetworkSet : trainer.total_epochs <= trained[net]

C10_Witness ==
  /\ restarts > 0
  /\ pc = "batches"
  /\ FileTotalEpochs > 0
  /\ trainer.total_epochs = FileTotalEpochs
  /\ \E a \in NetworkSet : \E b \in NetworkSet : DiskEpochs(a) < DiskEpochs(b)

\* The value load_config gives an attribute: the file's when the key is there
\* (and, for tensorboard_current_logdir, when it is asked for), else the old one.
Decoded(j) == IF j.type = "null" THEN None ELSE j.value
ExpectedAfterLoad(key) ==
  IF /\ config_file.exists
     /\ key \in DOMAIN config_file.data
     /\ (key = "tensorboard_current_logdir" => obs.last.ltb)
  THEN Decoded(config_file.data[key])
  ELSE obs.last.pre[key]

\* C3: after load_config, each of the five attributes whose key is in the file
\* has the file's value and every other keeps its pre-load value; and when the
\* file was written by save_config, load_config() on any Trainer leaves the
\* five attributes equal to the saved ones.
C3_ConfigRoundTrip ==
  obs.last.op = "load_config" =>
    /\ \A key \in ConfigKeys : trainer[key] = ExpectedAfterLoad(key)
    /\ (obs.saved_valid /\ obs.last.ltb) => trainer = obs.saved_attrs

C3_Witness ==
  /\ obs.last.op = "load_config"
  /\ obs.last.ltb
  /\ obs.saved_valid
  /\ restarts > 0
  /\ \A key \in ConfigKeys \ { "tensorboard_base_logdir" } :
       obs.last.pre[key] # trainer[key]
  /\ trainer.image_log_path = Str("images")
  /\ trainer.tensorboard_base_logdir = Str("tensorboard_logs")
  /\ trainer.tensorboard_current_logdir # None
  /\ trainer.total_epochs > 1

\* C4: for every subset of the four weight files present under weights_path,
\* configure_checkpoint completes, gives each network whose file is present the
\* weights of that file and reports it loaded, and leaves every other network's
\* parameters as they were, with a "Not found" notice for its path.
C4_RestoreIsPerNetwork ==
  obs.last.op = "configure_checkpoint" =>
    /\ pc = "idle"
    /\ \A net \in NetworkSet :
         LET path == Join(trainer.weights_path, Str(WeightFileName(net)))
         IN IF weight_files[path].exists
            THEN /\ params[net] = weight_files[path].params
                 /\ path \in obs.last.loaded
                 /\ path \notin obs.last.notices
            ELSE /\ params[net] = obs.last.pre_params[net]
                 /\ path \in obs.last.notices
                 /\ path \notin obs.last.loaded

C4_Witness ==
  /\ obs.last.op = "configure_checkpoint"
  /\ Cardinality(obs.last.loaded) = 2
  /\ Cardinality(obs.last.notices) = 2
  /\ \A net \in NetworkSet : obs.last.pre_params[net] > 0
  /\ \E net \in NetworkSet : params[net] # obs.last.pre_params[net]
  /\ \E net \in NetworkSet : params[net] = obs.last.pre_params[net]

====
